---- MODULE Spec2Model ----
(***************************************************************************)
(* UK Government GHG conversion factors: the extractor                     *)
(* (scripts/parse_conversion_factors.py, class ConversionFactorParser) and *)
(* the query service (src/api/conversion_factors.py).                      *)
(*                                                                         *)
(* Text is a sequence of one-character strings, so that lower(), strip(),  *)
(* split(), replace() and the substring test are computed, not assumed.    *)
(* Python's None is the value None below, which is no text.  Floats are    *)
(* integers.  A list(set(...)) of tags is a set: its order is not fixed by *)
(* the program.  The list itself, in each order it can have, is what a     *)
(* call of _generate_tags leaves in `tagged`.                              *)
(***************************************************************************)
EXTENDS Integers, Sequences, FiniteSets, TLC

VARIABLES
    \* ---- extractor (ConversionFactorParser) ----
    sheet,               \* the rows read_excel returned (the input)
    conversion_factors,  \* self.conversion_factors
    total_factors,       \* self.metadata["total_factors"]
    scopes,              \* self.metadata["scopes"]: sequence of <<scope, count>>
    categories,          \* self.metadata["categories"]: sequence of <<level1, count>>
    warnings,            \* rows logged by logger.warning in the last parse_excel
    pstatus,             \* the last parse_excel: "new" (none yet), "ok", "unreadable"
                         \* (read_excel raised), "raised" (a row's exception escaped)
    calls,               \* parse_excel calls made on this parser instance
    started,             \* len(self.conversion_factors) when the last parse_excel began
    runs,                \* parse_excel calls completed on this input, over all parsers
    firstOutput,         \* conversion_factors after the first completed parse_excel
    tagged,              \* one call of _generate_tags: its argument and the list
                         \* it returned
    \* ---- query service ----
    file,                \* src/data/conversion_factors_2025.json
    cache,               \* lru_cache of load_conversion_factors
    loads,               \* successful executions of load_conversion_factors' body
    snapshot,            \* the data the first successful load returned
    failedOnce,          \* some request found the artifact missing or unloadable
    request,             \* the last request: operation and parameters
    response             \* what the last request returned; `used` is the data its
                         \* handler read and `stale` says the file no longer held it

vars == <<sheet, conversion_factors, total_factors, scopes, categories, warnings,
          pstatus, calls, started, runs, firstOutput, tagged,
          file, cache, loads, snapshot, failedOnce, request, response>>

extractorVars == <<sheet, conversion_factors, total_factors, scopes, categories,
                   warnings, pstatus, calls, started, runs, firstOutput, tagged>>

serviceVars == <<cache, loads, snapshot, failedOnce, request, response>>

-----------------------------------------------------------------------------
(* Text                                                                    *)

None == <<"None">>

UpperCase == <<"A","B","C","D","E","F","G","H","I","J","K","L","M",
               "N","O","P","Q","R","S","T","U","V","W","X","Y","Z">>
LowerCase == <<"a","b","c","d","e","f","g","h","i","j","k","l","m",
               "n","o","p","q","r","s","t","u","v","w","x","y","z">>

\* str.lower(), one character
LowerTable ==
    [c \in {UpperCase[i] : i \in 1..26} |->
        LowerCase[CHOOSE i \in 1..26 : UpperCase[i] = c]]

LowerChar(c) == IF c \in DOMAIN LowerTable THEN LowerTable[c] ELSE c

\* str.lower()
Lower(s) == [i \in 1..Len(s) |-> LowerChar(s[i])]

\* the characters str.strip() and str.split() treat as whitespace
IsSpace(c) == c \in {" ", "\t", "\n"}

\* str.strip()
Strip(s) ==
    LET keep == {i \in 1..Len(s) : ~IsSpace(s[i])}
    IN  IF keep = {} THEN <<>>
        ELSE LET lo == CHOOSE i \in keep : \A j \in keep : i <= j
                 hi == CHOOSE i \in keep : \A j \in keep : j <= i
             IN  SubSeq(s, lo, hi)

\* str.replace(old, new) for a one-character old and new
RECURSIVE Replace(_, _, _)
Replace(s, old, new) ==
    IF s = <<>> THEN <<>>
    ELSE <<IF Head(s) = old THEN new ELSE Head(s)>> \o Replace(Tail(s), old, new)

\* str.split(): the maximal runs of non-whitespace, in order
RECURSIVE SplitFrom(_, _, _)
SplitFrom(s, i, cur) ==
    IF i > Len(s)
    THEN IF cur = <<>> THEN <<>> ELSE <<cur>>
    ELSE IF IsSpace(s[i])
         THEN (IF cur = <<>> THEN <<>> ELSE <<cur>>) \o SplitFrom(s, i + 1, <<>>)
         ELSE SplitFrom(s, i + 1, Append(cur, s[i]))

Split(s) == SplitFrom(s, 1, <<>>)

\* Python's `needle in hay` for two strings
Contains(hay, needle) ==
    \E i \in 0..(Len(hay) - Len(needle)) :
        \A j \in 1..Len(needle) : hay[i + j] = needle[j]

\* Python truthiness of an Optional[str]: None and "" are falsy
Truthy(x) == x # None /\ x # <<>>

Range(s) == {s[i] : i \in 1..Len(s)}

-----------------------------------------------------------------------------
(* Cells of the sheet.  A cell is missing (NaN), a string or a number.     *)

NA == [kind |-> "na", s |-> <<>>, n |-> 0]
StrCell(t) == [kind |-> "str", s |-> t, n |-> 0]
NumCell(v) == [kind |-> "num", s |-> <<>>, n |-> v]

\* pd.isna / pd.notna
IsNa(c) == c.kind = "na"
NotNa(c) == c.kind # "na"

Digits == <<"0","1","2","3","4","5","6","7","8","9">>
IsDigit(c) == \E i \in 1..10 : Digits[i] = c
DigitVal(c) == (CHOOSE i \in 1..10 : Digits[i] = c) - 1

RECURSIVE DecimalValue(_)
DecimalValue(s) ==
    IF s = <<>> THEN 0
    ELSE 10 * DecimalValue(SubSeq(s, 1, Len(s) - 1)) + DigitVal(s[Len(s)])

\* float(x) succeeds: a number, or a string that is digits once stripped
FloatParses(c) ==
    \/ c.kind = "num"
    \/ /\ c.kind = "str"
       /\ LET t == Strip(c.s)
          IN  t # <<>> /\ \A i \in 1..Len(t) : IsDigit(t[i])

\* float(x), where it succeeds
FloatOf(c) == IF c.kind = "num" THEN c.n ELSE DecimalValue(Strip(c.s))

\* str(x) of a string cell
StrOf(c) == c.s

\* str(row[col]).strip() if pd.notna(row[col]) else None
CleanText(c) == IF NotNa(c) THEN Strip(StrOf(c)) ELSE None

-----------------------------------------------------------------------------
(* Extractor: ConversionFactorParser                                       *)

Year == 2025

Columns == {"ID", "Scope", "Level1", "Level2", "Level3", "Level4",
            "Column_Text", "UOM", "GHG_Unit", "Conversion_Factor_2025"}

\* the value _create_factor_record's result has when it built no record
NoFactor ==
    [id |-> None, scope |-> None,
     category |-> [level1 |-> None, level2 |-> None, level3 |-> None, level4 |-> None],
     units |-> [activity_unit |-> None, emission_unit |-> None],
     conversion_factor |-> 0, column_text |-> None, year |-> 0, tags |-> {}]

\* factor["category"].values(), in level1..level4 order
CategoryValues(f) ==
    <<f.category.level1, f.category.level2, f.category.level3, f.category.level4>>

\* the parts one category level contributes to the tags
LevelParts(level) ==
    Split(Replace(Replace(Replace(Lower(level), "(", " "), ")", " "), "-", " "))

\* the "clean and deduplicate" comprehension of _generate_tags with the
\* length test left out
CleanTagsKeepShort(tags) ==
    {Strip(tags[i]) : i \in {j \in 1..Len(tags) : Strip(tags[j]) # <<>>}}

\* the "clean and deduplicate" comprehension of _generate_tags: list(set(...))
CleanTags(tags) ==
    {Strip(tags[i]) : i \in {j \in 1..Len(tags) :
                                Strip(tags[j]) # <<>> /\ Len(Strip(tags[j])) > 1}}

\* the parts of the category levels from position i on, in order
RECURSIVE CategoryTags(_, _)
CategoryTags(levels, i) ==
    IF i > Len(levels) THEN <<>>
    ELSE (IF Truthy(levels[i]) /\ Lower(levels[i]) # <<"n","a","n">>
          THEN LevelParts(levels[i]) ELSE <<>>) \o CategoryTags(levels, i + 1)

\* the list `tags` of _generate_tags before it is cleaned
RawTags(f) ==
    (IF Truthy(f.scope) THEN <<Replace(Lower(f.scope), " ", "_")>> ELSE <<>>)
    \o CategoryTags(CategoryValues(f), 1)
    \o (IF Truthy(f.units.activity_unit)
        THEN <<Lower(f.units.activity_unit)>> ELSE <<>>)

\* _generate_tags
GenerateTags(f) == CleanTags(RawTags(f))

\* the record _create_factor_record builds, before the tags are added
FactorFields(row) ==
    [id |-> Strip(StrOf(row.ID)),
     scope |-> CleanText(row.Scope),
     category |-> [level1 |-> CleanText(row.Level1),
                   level2 |-> CleanText(row.Level2),
                   level3 |-> CleanText(row.Level3),
                   level4 |-> CleanText(row.Level4)],
     units |-> [activity_unit |-> CleanText(row.UOM),
                emission_unit |-> CleanText(row.GHG_Unit)],
     conversion_factor |-> FloatOf(row.Conversion_Factor_2025),
     column_text |-> CleanText(row.Column_Text),
     year |-> Year,
     tags |-> {}]

\* _create_factor_record: returns None, raises (float() of an unparseable
\* value), or returns the record
CreateFactorRecord(row) ==
    IF IsNa(row.ID) \/ IsNa(row.Conversion_Factor_2025)
    THEN [outcome |-> "none", factor |-> NoFactor]
    ELSE IF ~FloatParses(row.Conversion_Factor_2025)
    THEN [outcome |-> "raise", factor |-> NoFactor]
    ELSE LET f == FactorFields(row)
         IN  [outcome |-> "ok", factor |-> [f EXCEPT !.tags = GenerateTags(f)]]

\* df.dropna(subset=['ID', 'Conversion_Factor_2025'])
DropNa(rows) ==
    SelectSeq(rows, LAMBDA r : NotNa(r.ID) /\ NotNa(r.Conversion_Factor_2025))

\* the loop of _process_dataframe with its try/except removed: the first
\* raising row ends the loop and the exception leaves parse_excel
RECURSIVE ProcessRowsNoCatch(_, _, _)
ProcessRowsNoCatch(rows, acc, warned) ==
    IF rows = <<>> THEN [factors |-> acc, warned |-> warned, raised |-> FALSE]
    ELSE LET r == CreateFactorRecord(Head(rows))
         IN  IF r.outcome = "raise"
             THEN [factors |-> acc, warned |-> warned, raised |-> TRUE]
             ELSE ProcessRowsNoCatch(Tail(rows),
                      IF r.outcome = "ok" THEN Append(acc, r.factor) ELSE acc, warned)

\* the loop of _process_dataframe: a raising row is logged and skipped
RECURSIVE ProcessRows(_, _, _)
ProcessRows(rows, acc, warned) ==
    IF rows = <<>> THEN [factors |-> acc, warned |-> warned, raised |-> FALSE]
    ELSE LET r == CreateFactorRecord(Head(rows))
         IN  ProcessRows(Tail(rows),
                 IF r.outcome = "ok" THEN Append(acc, r.factor) ELSE acc,
                 IF r.outcome = "raise" THEN warned + 1 ELSE warned)

\* first-encounter order of the truthy values of a field, without repeats
RECURSIVE FirstSeen(_, _)
FirstSeen(vals, seen) ==
    IF vals = <<>> THEN seen
    ELSE FirstSeen(Tail(vals),
             IF Truthy(Head(vals)) /\ Head(vals) \notin Range(seen)
             THEN Append(seen, Head(vals)) ELSE seen)

CountOf(vals, v) == Cardinality({i \in 1..Len(vals) : vals[i] = v})

\* scope_counts / category_counts of _calculate_metadata, in dict order
Counts(vals) ==
    LET keys == FirstSeen(vals, <<>>)
    IN  [i \in 1..Len(keys) |-> <<keys[i], CountOf(vals, keys[i])>>]

\* sorted(items, key=count, reverse=True): stable, descending by count
RECURSIVE SortDesc(_)
SortDesc(items) ==
    IF items = <<>> THEN <<>>
    ELSE LET top == CHOOSE i \in 1..Len(items) :
                        /\ \A j \in 1..Len(items) : items[j][2] <= items[i][2]
                        /\ \A j \in 1..(i - 1) : items[j][2] < items[i][2]
         IN  <<items[top]>> \o
             SortDesc(SubSeq(items, 1, top - 1) \o SubSeq(items, top + 1, Len(items)))

ScopeCounts(factors) == Counts([i \in 1..Len(factors) |-> factors[i].scope])
CategoryCounts(factors) ==
    SortDesc(Counts([i \in 1..Len(factors) |-> factors[i].category.level1]))
-----------------------------------------------------------------------------
(* Texts the sheets and the requests are built from                        *)

T_Scope1 == <<"S", "c", "o", "p", "e", " ", "1">>
T_Scope2 == <<"S", "c", "o", "p", "e", " ", "2">>
T_Scope3 == <<"S", "c", "o", "p", "e", " ", "3">>
T_Fuels == <<"F", "u", "e", "l", "s">>
T_UKElectricity == <<"U", "K", " ", "e", "l", "e", "c", "t", "r", "i", "c", "i", "t", "y">>
T_BusinessTravelAir == <<"B", "u", "s", "i", "n", "e", "s", "s", " ", "t", "r", "a", "v", "e", "l", "-", " ", "a", "i", "r">>
T_FlightsDomestic == <<"F", "l", "i", "g", "h", "t", "s", " ", "(", "d", "o", "m", "e", "s", "t", "i", "c", ")">>
T_FreightingGoods == <<"F", "r", "e", "i", "g", "h", "t", "i", "n", "g", " ", "g", "o", "o", "d", "s">>
T_kWh == <<"k", "W", "h">>
T_km == <<"k", "m">>
T_litres == <<"l", "i", "t", "r", "e", "s">>
T_kgCO2e == <<"k", "g", " ", "C", "O", "2", "e">>
T_PaddedScope2 == <<" ", "S", "c", "o", "p", "e", " ", "2", " ">>
T_Blank == <<" ">>
T_Empty == <<>>
T_PaddedKWh == <<"k", "W", "h", " ">>
T_Petrol == <<"P", "e", "t", "r", "o", "l">>
T_Energy == <<"E", "n", "e", "r", "g", "y">>
T_Flight == <<"F", "l", "i", "g", "h", "t">>
T_electricity == <<"e", "l", "e", "c", "t", "r", "i", "c", "i", "t", "y">>
T_uk == <<"u", "k">>
T_grid == <<"g", "r", "i", "d">>
T_travel == <<"t", "r", "a", "v", "e", "l">>
T_vehicle == <<"v", "e", "h", "i", "c", "l", "e">>
T_freight == <<"f", "r", "e", "i", "g", "h", "t">>
T_Scope == <<"S", "C", "O", "P", "E">>
T_fuel == <<"f", "u", "e", "l">>
T_SCOPE1 == <<"S", "C", "O", "P", "E", " ", "1">>
T_PETROL == <<"P", "E", "T", "R", "O", "L">>
T_co2 == <<"c", "o", "2">>

-----------------------------------------------------------------------------
(* The input sheets                                                        *)

MaxRows == 2
MaxRuns == 2

Row(id, cf, sc, l1, l2, l3, l4, ct, uom, ghg) ==
    [ID |-> id, Scope |-> sc, Level1 |-> l1, Level2 |-> l2, Level3 |-> l3,
     Level4 |-> l4, Column_Text |-> ct, UOM |-> uom, GHG_Unit |-> ghg,
     Conversion_Factor_2025 |-> cf]

\* identifier cells: missing, plain, padded, whitespace only
IdCells == {NA, StrCell(<<"1">>), StrCell(<<" ", "2", " ">>), StrCell(T_Blank)}

\* conversion-factor cells: missing, a number, text that parses, text that does not
CfCells == {NA, NumCell(3), StrCell(<<" ", "1", "2">>), StrCell(<<"x">>)}

\* the text cells of a row: the spec's example row, a padded row, a row of
\* blank and empty cells, a row with every optional cell missing, a row of
\* multi-word categories
TextProfiles ==
    { <<StrCell(T_Scope1), StrCell(T_Fuels), NA, NA, NA, NA,
        StrCell(T_litres), StrCell(T_kgCO2e)>>,
      <<StrCell(T_PaddedScope2), StrCell(T_UKElectricity), StrCell(T_Blank), NA, NA,
        StrCell(T_Energy), StrCell(T_PaddedKWh), StrCell(T_kgCO2e)>>,
      <<StrCell(T_Blank), StrCell(T_Empty), StrCell(T_Blank), StrCell(T_Empty),
        StrCell(T_Blank), StrCell(T_Blank), StrCell(T_Blank), StrCell(T_Empty)>>,
      <<NA, NA, NA, NA, NA, NA, NA, NA>>,
      <<StrCell(T_Scope3), StrCell(T_BusinessTravelAir), StrCell(T_FlightsDomestic),
        NA, NA, NA, StrCell(T_km), StrCell(T_kgCO2e)>> }

MkRow(id, cf, t) == Row(id, cf, t[1], t[2], t[3], t[4], t[5], t[6], t[7], t[8])

ExampleProfile ==
    <<StrCell(T_Scope1), StrCell(T_Fuels), NA, NA, NA, NA,
      StrCell(T_litres), StrCell(T_kgCO2e)>>

GoodId == StrCell(<<"1">>)
GoodCf == NumCell(3)

\* every identifier cell and every value cell with the example text, and
\* every text profile with a good identifier and value
RowPool ==
    {MkRow(id, GoodCf, ExampleProfile) : id \in IdCells}
    \cup {MkRow(GoodId, cf, ExampleProfile) : cf \in CfCells}
    \cup {MkRow(StrCell(<<" ", "2", " ">>), StrCell(<<" ", "1", "2">>), t) : t \in TextProfiles}

Sheets == UNION {[1..n -> RowPool] : n \in 0..MaxRows}

-----------------------------------------------------------------------------
(* The artifact file                                                       *)

\* the file's data is the list of its records; its metadata follows from them
NoData == <<>>

Missing == [state |-> "missing", data |-> NoData]
Stored(d) == [state |-> "ok", data |-> d]
\* a file that exists and does not load (not JSON, or without total_factors)
Corrupt == [state |-> "corrupt", data |-> NoData]

-----------------------------------------------------------------------------
(* Extractor actions                                                       *)

\* no call of _generate_tags on its own
NoTagging == [done |-> FALSE, factor |-> NoFactor, tags |-> <<>>]

\* ConversionFactorParser.__init__
NewParser ==
    /\ pstatus # "new"
    /\ runs < MaxRuns
    /\ conversion_factors' = <<>>
    /\ total_factors' = 0
    /\ scopes' = <<>>
    /\ categories' = <<>>
    /\ warnings' = 0
    /\ pstatus' = "new"
    /\ calls' = 0
    /\ started' = 0
    /\ UNCHANGED <<sheet, runs, firstOutput, tagged, file>>
    /\ UNCHANGED serviceVars

\* parse_excel when read_excel raises: nothing was processed
ParseExcelUnreadable ==
    /\ runs < MaxRuns
    /\ pstatus = "new"
    /\ pstatus' = "unreadable"
    /\ calls' = calls + 1
    /\ UNCHANGED <<sheet, conversion_factors, total_factors, scopes, categories,
                   warnings, started, runs, firstOutput, tagged, file>>
    /\ UNCHANGED serviceVars

\* parse_excel: read, dropna, _process_dataframe, _calculate_metadata
ParseExcel ==
    /\ runs < MaxRuns
    /\ \E r \in {ProcessRows(DropNa(sheet), conversion_factors, 0)} :
           /\ conversion_factors' = r.factors
           /\ warnings' = r.warned
           /\ started' = Len(conversion_factors)
           /\ calls' = calls + 1
           /\ IF r.raised
              THEN /\ pstatus' = "raised"
                   /\ UNCHANGED <<total_factors, scopes, categories, runs, firstOutput>>
              ELSE /\ pstatus' = "ok"
                   /\ total_factors' = Len(r.factors)
                   /\ scopes' = ScopeCounts(r.factors)
                   /\ categories' = CategoryCounts(r.factors)
                   /\ runs' = runs + 1
                   /\ firstOutput' = IF runs = 0 THEN r.factors ELSE firstOutput
    /\ UNCHANGED <<sheet, tagged, file>>
    /\ UNCHANGED serviceVars

NoRequest == [op |-> "none"]
NoResponse == [status |-> 0, used |-> NoData, body |-> "none", stale |-> FALSE]

InitService ==
    /\ cache = [full |-> FALSE, data |-> NoData]
    /\ loads = 0
    /\ snapshot = NoData
    /\ failedOnce = FALSE
    /\ request = NoRequest
    /\ response = NoResponse

InitExtractor ==
    /\ sheet \in Sheets
    /\ conversion_factors = <<>>
    /\ total_factors = 0
    /\ scopes = <<>>
    /\ categories = <<>>
    /\ warnings = 0
    /\ pstatus = "new"
    /\ calls = 0
    /\ started = 0
    /\ runs = 0
    /\ firstOutput = <<>>
    /\ tagged = NoTagging
    /\ file = Missing
    /\ InitService

NextExtractor ==
    \/ NewParser
    \/ ParseExcelUnreadable
    \/ ParseExcel

SpecExtractor == InitExtractor /\ [][NextExtractor]_vars
-----------------------------------------------------------------------------
(* Query service: the datasets.                                            *)
(* The records of a dataset are the extractor's records of rows of a few   *)
(* kinds.  A dataset holds them by reference: <<kind, identifier, value>>  *)
(* names the record the extractor makes of that row, and Rec gives it.     *)

MaxRecords == 31
IdCycle == 7
MaxValue == 3

\* str(n) of a natural number
RECURSIVE Decimal(_)
Decimal(n) ==
    IF n < 10 THEN <<Digits[n + 1]>> ELSE Decimal(n \div 10) \o <<Digits[(n % 10) + 1]>>

Kinds == <<"E2", "E3", "F", "FE", "T", "N", "B">>

\* text cells of the kinds of row
KindProfile(k) ==
    CASE k = "E2" -> <<StrCell(T_Scope2), StrCell(T_UKElectricity), NA, NA, NA, NA,
                       StrCell(T_kWh), StrCell(T_kgCO2e)>>
      [] k = "E3" -> <<StrCell(T_Scope3), StrCell(T_UKElectricity), NA, NA, NA, NA,
                       StrCell(T_kWh), StrCell(T_kgCO2e)>>
      [] k = "F"  -> <<StrCell(T_Scope1), StrCell(T_Fuels), StrCell(T_Petrol), NA, NA, NA,
                       StrCell(T_litres), StrCell(T_kgCO2e)>>
      [] k = "FE" -> <<StrCell(T_Scope1), StrCell(T_Fuels), StrCell(T_Petrol),
                       StrCell(T_UKElectricity), NA, NA,
                       StrCell(T_litres), StrCell(T_kgCO2e)>>
      [] k = "T"  -> <<StrCell(T_Scope3), StrCell(T_BusinessTravelAir),
                       StrCell(T_FlightsDomestic), NA, NA, NA,
                       StrCell(T_km), StrCell(T_kgCO2e)>>
      [] k = "N"  -> <<StrCell(T_Scope3), NA, StrCell(T_FlightsDomestic), NA, NA, NA,
                       StrCell(T_km), StrCell(T_kgCO2e)>>
      [] k = "B"  -> <<StrCell(T_Blank), StrCell(T_Empty), NA, NA, NA, NA,
                       StrCell(T_Blank), NA>>

\* the record the extractor makes of a row of kind k, identifier n, value v
KindRecord(k, n, v) ==
    CreateFactorRecord(MkRow(StrCell(Decimal(n)), NumCell(v), KindProfile(k))).factor

RECURSIVE RecordsByValue(_, _, _)
RecordsByValue(k, n, v) ==
    IF v < 0 THEN <<>> ELSE Append(RecordsByValue(k, n, v - 1), KindRecord(k, n, v))

RECURSIVE RecordsById(_, _)
RecordsById(k, n) ==
    IF n = 0 THEN <<>> ELSE Append(RecordsById(k, n - 1), RecordsByValue(k, n, MaxValue))

RECURSIVE RecordsByKind(_)
RecordsByKind(i) ==
    IF i = 0 THEN <<>>
    ELSE Append(RecordsByKind(i - 1), RecordsById(Kinds[i], MaxRecords + 1))

RecordTable == RecordsByKind(Len(Kinds))

KindIndex(k) == CHOOSE i \in 1..Len(Kinds) : Kinds[i] = k

Ref(k, n, v) == <<KindIndex(k), n, v>>

\* the record a reference names
Rec(r) == RecordTable[r[1]][r[2]][r[3] + 1]

\* the patterns of kinds a dataset repeats
Patterns ==
    { <<"E2", "E3">>, <<"E2", "FE", "T">>, <<"F", "T">>, <<"T", "N">>,
      <<"E3", "B", "FE">> }

\* n records following pattern w; identifiers 1..n, or cycling through
\* 1..IdCycle when identifiers repeat; values cycling through 0..MaxValue
Dataset(w, n, unique) ==
    [i \in 1..n |->
        Ref(w[((i - 1) % Len(w)) + 1],
            IF unique THEN i ELSE ((i - 1) % IdCycle) + 1,
            i % (MaxValue + 1))]

LookupDatasets ==
    {Dataset(w, n, u) : w \in Patterns, n \in 0..MaxRecords, u \in BOOLEAN}

\* data["conversion_factors"], as records
Factors(data) == [i \in 1..Len(data) |-> Rec(data[i])]

\* data["metadata"]: what _process_dataframe computed for these records
Metadata(data) ==
    [total_factors |-> Len(data), year |-> Year,
     scopes |-> ScopeCounts(Factors(data)),
     categories |-> CategoryCounts(Factors(data))]

-----------------------------------------------------------------------------
(* Query service: loading                                                  *)

EmptyCache == [full |-> FALSE, data |-> NoData]

\* load_conversion_factors without the lru_cache: every call reads the file
LoadUncached ==
    IF file.state = "ok"
    THEN [ok |-> TRUE, data |-> file.data,
          cache |-> [full |-> TRUE, data |-> file.data], loaded |-> 1]
    ELSE [ok |-> FALSE, data |-> NoData, cache |-> cache, loaded |-> 0]

\* load_conversion_factors behind lru_cache(maxsize=1): a cached value is
\* returned as it is; otherwise the file is read, and the value is cached only
\* when the body returns (an exception is not cached)
Load ==
    IF cache.full
    THEN [ok |-> TRUE, data |-> cache.data, cache |-> cache, loaded |-> 0]
    ELSE IF file.state = "ok"
    THEN [ok |-> TRUE, data |-> file.data,
          cache |-> [full |-> TRUE, data |-> file.data], loaded |-> 1]
    ELSE [ok |-> FALSE, data |-> NoData, cache |-> cache, loaded |-> 0]

\* what every handler does to the service state, given its load and response
Respond(req, l, resp) ==
    /\ request' = req
    /\ response' = [status |-> resp.status, used |-> resp.used, body |-> resp.body,
                    stale |-> (file # Stored(l.data))]
    /\ cache' = l.cache
    /\ loads' = loads + l.loaded
    /\ snapshot' = IF l.loaded = 1 /\ loads = 0 THEN l.data ELSE snapshot
    /\ failedOnce' = (failedOnce \/ ~l.ok)
    /\ UNCHANGED file
    /\ UNCHANGED extractorVars

\* an exception that leaves a handler: the framework answers 500
ServerError == [status |-> 500, used |-> NoData, body |-> "Internal Server Error"]

-----------------------------------------------------------------------------
(* Query service: quick_lookup and get_factor_by_id                        *)

SubLimit == 10
ResultLimit == 20

Take(s, n) == SubSeq(s, 1, IF Len(s) < n THEN Len(s) ELSE n)

\* the electricity test without its scope condition
IsElectricityAnyScope(f) == \E tag \in f.tags : tag \in {T_electricity, T_uk, T_grid}

\* any(tag in ["electricity", "uk", "grid"] ...) and scope in ["Scope 2", "Scope 1"]
IsElectricity(f) ==
    /\ \E tag \in f.tags : tag \in {T_electricity, T_uk, T_grid}
    /\ f.scope \in {T_Scope2, T_Scope1}

\* any(x.lower() in tag.lower() for tag in f.get("tags", []))
TagMatches(f, x) ==
    \E lx \in {Lower(x)} : \E tag \in f.tags : Contains(Lower(tag), lx)

IsFuel(f, fuel_type) == TagMatches(f, fuel_type) /\ f.category.level1 = T_Fuels

\* the transport comprehension, record by record: the level1 test is reached
\* only when a tag matches, and raises AttributeError on a level1 of None
RECURSIVE TransportFactors(_, _, _)
TransportFactors(factors, mode, acc) ==
    IF factors = <<>> THEN [raised |-> FALSE, factors |-> acc]
    ELSE IF ~TagMatches(Rec(Head(factors)), mode)
         THEN TransportFactors(Tail(factors), mode, acc)
         ELSE IF Rec(Head(factors)).category.level1 = None
              THEN [raised |-> TRUE, factors |-> <<>>]
              ELSE TransportFactors(Tail(factors), mode,
                       IF \E cat \in {T_travel, T_vehicle, T_freight} :
                              Contains(Lower(Rec(Head(factors)).category.level1), cat)
                       THEN Append(acc, Head(factors)) ELSE acc)

\* the "remove duplicates" loop: seen_ids and unique_results
RECURSIVE Unique(_, _, _)
Unique(results, seen_ids, unique_results) ==
    IF results = <<>> THEN unique_results
    ELSE IF Rec(Head(results)).id \notin seen_ids
         THEN Unique(Tail(results), seen_ids \cup {Rec(Head(results)).id},
                     Append(unique_results, Head(results)))
         ELSE Unique(Tail(results), seen_ids, unique_results)

\* quick_lookup's list `results` before the duplicates are removed, with the
\* fuel sub-search not cut to its first 10
QuickResultsFuelUncut(factors, electricity, fuel_type, transport_factors) ==
    (IF electricity
     THEN Take(SelectSeq(factors, LAMBDA r : IsElectricity(Rec(r))), SubLimit) ELSE <<>>)
    \o (IF Truthy(fuel_type)
        THEN SelectSeq(factors, LAMBDA r : IsFuel(Rec(r), fuel_type)) ELSE <<>>)
    \o Take(transport_factors, SubLimit)

\* quick_lookup's list `results` before the duplicates are removed, given the
\* transport matches (none when no transport_mode is given)
QuickResults(factors, electricity, fuel_type, transport_factors) ==
    (IF electricity
     THEN Take(SelectSeq(factors, LAMBDA r : IsElectricity(Rec(r))), SubLimit) ELSE <<>>)
    \o (IF Truthy(fuel_type)
        THEN Take(SelectSeq(factors, LAMBDA r : IsFuel(Rec(r), fuel_type)), SubLimit)
        ELSE <<>>)
    \o Take(transport_factors, SubLimit)

\* GET /quick-lookup
QuickLookup(electricity, fuel_type, transport_mode) ==
    \E l \in {Load} :
        LET req == [op |-> "quick_lookup", electricity |-> electricity,
                    fuel_type |-> fuel_type, transport_mode |-> transport_mode]
        IN  IF ~l.ok THEN Respond(req, l, ServerError)
            ELSE \E t \in {IF Truthy(transport_mode)
                           THEN TransportFactors(l.data, transport_mode, <<>>)
                           ELSE [raised |-> FALSE, factors |-> <<>>]} :
                   IF t.raised THEN Respond(req, l, ServerError)
                   ELSE \E u \in {Unique(QuickResults(l.data, electricity, fuel_type,
                                                      t.factors), {}, <<>>)} :
                          Respond(req, l,
                              [status |-> 200, used |-> l.data,
                               body |-> [results |-> Take(u, ResultLimit),
                                         total |-> Len(u)]])

\* next((f for f in factors if f["id"] == factor_id), None), with a substring
\* test in place of ==
RECURSIVE FindContaining(_, _)
FindContaining(factors, factor_id) ==
    IF factors = <<>> THEN [found |-> FALSE, factor |-> <<>>]
    ELSE IF Contains(Rec(Head(factors)).id, factor_id)
         THEN [found |-> TRUE, factor |-> Head(factors)]
         ELSE FindContaining(Tail(factors), factor_id)

\* next((f for f in factors if f["id"] == factor_id), None)
RECURSIVE FindById(_, _)
FindById(factors, factor_id) ==
    IF factors = <<>> THEN [found |-> FALSE, factor |-> <<>>]
    ELSE IF Rec(Head(factors)).id = factor_id
         THEN [found |-> TRUE, factor |-> Head(factors)]
         ELSE FindById(Tail(factors), factor_id)

\* GET /factors/{factor_id}
GetFactorById(factor_id) ==
    \E l \in {Load} :
        LET req == [op |-> "get_factor_by_id", factor_id |-> factor_id]
        IN  IF ~l.ok THEN Respond(req, l, ServerError)
            ELSE \E r \in {FindById(l.data, factor_id)} :
                     IF ~r.found
                     THEN Respond(req, l, [status |-> 404, used |-> l.data,
                                           body |-> "not found"])
                     ELSE Respond(req, l, [status |-> 200, used |-> l.data,
                                           body |-> r.factor])

FuelTypes == {None, <<>>, T_Petrol}
TransportModes == {None, <<>>, T_Flight}
FactorIds == {<<"0">>, <<"1">>, <<"5">>, <<"3", "4">>}

InitParserIdle ==
    /\ sheet = <<>>
    /\ conversion_factors = <<>>
    /\ total_factors = 0
    /\ scopes = <<>>
    /\ categories = <<>>
    /\ warnings = 0
    /\ pstatus = "new"
    /\ calls = 0
    /\ started = 0
    /\ runs = 0
    /\ firstOutput = <<>>
    /\ tagged = NoTagging

InitLookup ==
    /\ InitParserIdle
    /\ file \in {Stored(d) : d \in LookupDatasets}
    /\ InitService

NextLookup ==
    \/ \E e \in BOOLEAN, ft \in FuelTypes, tm \in TransportModes : QuickLookup(e, ft, tm)
    \/ \E id \in FactorIds : GetFactorById(id)

SpecLookup == InitLookup /\ [][NextLookup]_vars

-----------------------------------------------------------------------------
(* Extractor properties                                                    *)

\* the records the last parse_excel appended
Produced == SubSeq(conversion_factors, started + 1, Len(conversion_factors))

\* a row with an identifier and a parseable conversion-factor value
Accepted(row) ==
    /\ NotNa(row.ID)
    /\ NotNa(row.Conversion_Factor_2025)
    /\ FloatParses(row.Conversion_Factor_2025)

AcceptedRows == SelectSeq(sheet, Accepted)
RejectedCount == Cardinality({i \in 1..Len(sheet) : ~Accepted(sheet[i])})

\* C2: a parse_excel over a readable sheet always completes, and appends
\* exactly one record per row that has an identifier and a parseable value,
\* in row order, each being the record that row yields on its own; so the
\* number appended is the number of rows minus the number rejected, and the
\* rows whose value did not parse are the ones logged.
C2_OneRecordPerAcceptedRow ==
    /\ pstatus # "raised"
    /\ pstatus = "ok" =>
          /\ Len(Produced) = Len(sheet) - RejectedCount
          /\ Len(Produced) = Len(AcceptedRows)
          /\ \A k \in 1..Len(Produced) :
                 Produced[k] = CreateFactorRecord(AcceptedRows[k]).factor
          /\ warnings = Cardinality({i \in 1..Len(sheet) :
                            /\ NotNa(sheet[i].ID)
                            /\ NotNa(sheet[i].Conversion_Factor_2025)
                            /\ ~FloatParses(sheet[i].Conversion_Factor_2025)})

\* a completed run over a sheet whose first row's value does not parse and
\* whose second row is accepted
C2_Witness ==
    /\ pstatus = "ok"
    /\ Len(sheet) = 2
    /\ NotNa(sheet[1].ID)
    /\ NotNa(sheet[1].Conversion_Factor_2025)
    /\ ~FloatParses(sheet[1].Conversion_Factor_2025)
    /\ Accepted(sheet[2])
    /\ Len(Produced) = 1
    /\ warnings = 1

\* C3: every record of conversion_factors has a non-null, non-empty id and a
\* numeric conversion_factor.
C3_IdNonEmpty ==
    \A i \in 1..Len(conversion_factors) :
        /\ conversion_factors[i].id # None
        /\ conversion_factors[i].id # <<>>
        /\ conversion_factors[i].conversion_factor \in Int

\* the textual fields of a record
TextFields(f) ==
    {f.scope, f.category.level1, f.category.level2, f.category.level3,
     f.category.level4, f.units.activity_unit, f.units.emission_unit, f.column_text}

\* C4: every textual field of every record is null or a non-empty string
\* without leading or trailing whitespace.
C4_TextNullOrStripped ==
    \A i \in 1..Len(conversion_factors) :
        \A t \in TextFields(conversion_factors[i]) :
            t = None \/ (t # <<>> /\ Strip(t) = t)

\* C5: every completed parse_excel over the same input leaves the same
\* conversion_factors as the first one did, also a second call on the same
\* parser.
C5_SameContentEveryRun ==
    (pstatus = "ok" /\ runs >= 1) => conversion_factors = firstOutput
-----------------------------------------------------------------------------
(* Query service properties: quick_lookup and get_factor_by_id             *)

\* a quick_lookup request that returned
QuickReturned == request.op = "quick_lookup" /\ response.status = 200

\* a parameter that was given (an empty string counts as not given)
Given(x) == x # None /\ x # <<>>

\* the positions of the dataset that match each sub-search of the request
ElectricityMatches(d) ==
    IF request.electricity
    THEN {i \in 1..Len(d) : IsElectricity(Rec(d[i]))} ELSE {}

FuelMatches(d) ==
    IF Given(request.fuel_type)
    THEN {i \in 1..Len(d) : IsFuel(Rec(d[i]), request.fuel_type)} ELSE {}

TransportMatches(d) ==
    IF Given(request.transport_mode)
    THEN {i \in 1..Len(d) :
            /\ TagMatches(Rec(d[i]), request.transport_mode)
            /\ Rec(d[i]).category.level1 # None
            /\ \E cat \in {T_travel, T_vehicle, T_freight} :
                   Contains(Lower(Rec(d[i]).category.level1), cat)}
    ELSE {}

\* the first n members of a set of positions
FirstOf(S, n) == {i \in S : Cardinality({j \in S : j < i}) < n}

\* the concatenation, as <<sub-search, position>> pairs in their order
Concatenated(d) ==
    {<<1, i>> : i \in FirstOf(ElectricityMatches(d), 10)}
    \cup {<<2, i>> : i \in FirstOf(FuelMatches(d), 10)}
    \cup {<<3, i>> : i \in FirstOf(TransportMatches(d), 10)}

Before(p, q) == p[1] < q[1] \/ (p[1] = q[1] /\ p[2] < q[2])

\* the entries that are the first with their id
FirstWithId(d, C) ==
    {p \in C : ~\E q \in C : Before(q, p) /\ Rec(d[q[2]]).id = Rec(d[p[2]]).id}

\* C6: the results of a quick_lookup that returns are the first 10
\* electricity matches, then the first 10 fuel matches, then the first 10
\* transport matches, each in dataset order, without the entries whose id
\* occurred earlier, cut to the first 20; so they are at most 20 and their ids
\* are distinct.
C6_QuickLookupResults ==
    QuickReturned =>
        \E kept \in {FirstWithId(response.used, Concatenated(response.used))} :
          \E final \in {{p \in kept : Cardinality({q \in kept : Before(q, p)}) < 20}} :
            LET results == response.body.results
            IN  /\ Len(results) = Cardinality(final)
                /\ \A p \in final :
                       results[Cardinality({q \in final : Before(q, p)}) + 1]
                           = response.used[p[2]]
                /\ Len(results) <= 20
                /\ \A i, j \in 1..Len(results) :
                       Rec(results[i]).id = Rec(results[j]).id => i = j

\* all three sub-searches asked for, duplicates removed, and more than 20 left
C6_Witness ==
    /\ QuickReturned
    /\ request.electricity
    /\ Given(request.fuel_type)
    /\ Given(request.transport_mode)
    /\ Len(response.body.results) = 20
    /\ response.body.total > 20
    /\ Cardinality(Concatenated(response.used)) > response.body.total
    /\ Cardinality(ElectricityMatches(response.used)) > 10

\* a quick_lookup with only the electricity flag that returned
ElectricityOnly ==
    /\ QuickReturned
    /\ request.electricity
    /\ ~Given(request.fuel_type)
    /\ ~Given(request.transport_mode)

HasUk(f) == T_uk \in f.tags

\* the record at position i of the dataset is among the results
Appears(i) ==
    \E k \in 1..Len(response.body.results) :
        Rec(response.body.results[k]) = Rec(response.used[i])

\* the ids of the dataset are unique, as the data model has them
UniqueIds(d) == \A i, j \in 1..Len(d) : Rec(d[i]).id = Rec(d[j]).id => i = j

\* C7 as stated, on the datasets whose ids are unique: with only the
\* electricity flag, every record with tag "uk" and scope "Scope 2" is in the
\* result and no record with tag "uk" and scope "Scope 3" is.
C7_EveryUkScope2Appears ==
    (ElectricityOnly /\ UniqueIds(response.used)) =>
        \A i \in 1..Len(response.used) :
            LET f == Rec(response.used[i])
            IN  /\ (HasUk(f) /\ f.scope = T_Scope2) => Appears(i)
                /\ (HasUk(f) /\ f.scope = T_Scope3) => ~Appears(i)

\* C7 as amended: with only the electricity flag, every record with tag "uk"
\* and scope "Scope 2" that is among the first 10 electricity matches and is
\* the first of them with its id is in the result, and no record with tag
\* "uk" and scope "Scope 3" is.
C7_FirstTenUkScope2Appear ==
    ElectricityOnly =>
        \E first \in {FirstOf({i \in 1..Len(response.used) :
                                  IsElectricity(Rec(response.used[i]))}, 10)} :
          \A i \in 1..Len(response.used) :
            LET f == Rec(response.used[i])
            IN  /\ (/\ HasUk(f) /\ f.scope = T_Scope2
                    /\ i \in first
                    /\ \A j \in first : j < i => Rec(response.used[j]).id # f.id)
                       => Appears(i)
                /\ (HasUk(f) /\ f.scope = T_Scope3) => ~Appears(i)

\* more than ten "uk" records of scope "Scope 2" and some of scope "Scope 3"
C7_Witness ==
    /\ ElectricityOnly
    /\ Cardinality({i \in 1..Len(response.used) :
                       /\ HasUk(Rec(response.used[i]))
                       /\ Rec(response.used[i]).scope = T_Scope2}) > 10
    /\ \E i \in 1..Len(response.used) :
           HasUk(Rec(response.used[i])) /\ Rec(response.used[i]).scope = T_Scope3
    /\ Len(response.body.results) = 10

\* C10: a lookup by id over a loaded dataset answers 200 with a record of
\* the dataset whose id is the requested one exactly when the dataset has
\* such a record, and 404 otherwise; it never answers anything else.
C10_LookupById ==
    (request.op = "get_factor_by_id" /\ cache.full) =>
        LET present == \E i \in 1..Len(cache.data) :
                           Rec(cache.data[i]).id = request.factor_id
        IN  /\ response.status \in {200, 404}
            /\ (response.status = 200) <=> present
            /\ response.status = 200 =>
                  /\ Rec(response.body).id = request.factor_id
                  /\ \E i \in 1..Len(cache.data) : cache.data[i] = response.body
            /\ response.status = 404 => response.body = "not found"

\* a record found that is not the first, in a dataset where another id
\* contains the requested one
C10_Witness ==
    /\ request.op = "get_factor_by_id"
    /\ response.status = 200
    /\ request.factor_id = <<"5">>
    /\ Len(cache.data) >= 15
    /\ Rec(cache.data[15]).id = <<"1", "5">>
-----------------------------------------------------------------------------
(* Query service: search_factors and POST /search                          *)

PageDefault == 1
PerPageDefault == 50

\* an Optional[float]
NoNumber == [set |-> FALSE, v |-> 0]
Number(v) == [set |-> TRUE, v |-> v]

\* the field a text criterion is compared with
FieldOf(f, field) ==
    CASE field = "scope" -> f.scope
      [] field = "level1" -> f.category.level1
      [] field = "level2" -> f.category.level2
      [] field = "level3" -> f.category.level3
      [] field = "activity_unit" -> f.units.activity_unit
      [] field = "emission_unit" -> f.units.emission_unit

\* one text filter of search_factors: applied when the criterion is truthy,
\* keeping the records whose field is truthy and contains it, both lowered
TextFilter(fs, crit, field) ==
    IF Truthy(crit)
    THEN SelectSeq(fs, LAMBDA r : /\ Truthy(FieldOf(Rec(r), field))
                                  /\ Contains(Lower(FieldOf(Rec(r), field)), Lower(crit)))
    ELSE fs

\* the free-text filter: any tag, or any truthy category value
TermFilter(fs, term) ==
    IF Truthy(term)
    THEN SelectSeq(fs, LAMBDA r :
             \/ \E tag \in Rec(r).tags : Contains(Lower(tag), Lower(term))
             \/ \E v \in Range(CategoryValues(Rec(r))) :
                    Truthy(v) /\ Contains(Lower(v), Lower(term)))
    ELSE fs

\* the min_factor filter with > in place of >=
MinFilterStrict(fs, min_factor) ==
    IF min_factor.set
    THEN SelectSeq(fs, LAMBDA r : Rec(r).conversion_factor > min_factor.v)
    ELSE fs

\* if search_params.min_factor is not None: keep conversion_factor >= min_factor
MinFilter(fs, min_factor) ==
    IF min_factor.set
    THEN SelectSeq(fs, LAMBDA r : Rec(r).conversion_factor >= min_factor.v)
    ELSE fs

\* if search_params.max_factor is not None: keep conversion_factor <= max_factor
MaxFilter(fs, max_factor) ==
    IF max_factor.set
    THEN SelectSeq(fs, LAMBDA r : Rec(r).conversion_factor <= max_factor.v)
    ELSE fs

\* search_factors: the filters one after the other
SearchFactors(factors, p) ==
    MaxFilter(
     MinFilter(
      TermFilter(
       TextFilter(
        TextFilter(
         TextFilter(
          TextFilter(
           TextFilter(
            TextFilter(factors, p.scope, "scope"),
            p.category_level1, "level1"),
           p.category_level2, "level2"),
          p.category_level3, "level3"),
         p.activity_unit, "activity_unit"),
        p.emission_unit, "emission_unit"),
       p.search_term),
      p.min_factor),
     p.max_factor)

\* filtered_factors[start_idx:end_idx]
Paginate(filtered, page, per_page) ==
    SubSeq(filtered, (page - 1) * per_page + 1,
           IF page * per_page < Len(filtered) THEN page * per_page ELSE Len(filtered))

\* POST /search
SearchConversionFactors(p, page, per_page) ==
    \E l \in {Load} :
        LET req == [op |-> "search", params |-> p, page |-> page, per_page |-> per_page]
        IN  IF ~l.ok THEN Respond(req, l, ServerError)
            ELSE \E filtered \in {SearchFactors(l.data, p)} :
                     Respond(req, l,
                         [status |-> 200, used |-> l.data,
                          body |-> [metadata |-> Metadata(l.data),
                                    factors |-> Paginate(filtered, page, per_page),
                                    total |-> Len(filtered),
                                    page |-> page, per_page |-> per_page]])

MaxFactors == 2

\* the records the searched datasets are made of
SearchPool ==
    {Ref("FE", 1, 2), Ref("T", 2, 3), Ref("B", 3, 0), Ref("N", 4, 2)}

SearchDatasets == UNION {[1..n -> SearchPool] : n \in 0..MaxFactors}

SearchParams ==
    [scope : {None, <<>>, T_SCOPE1},
     category_level1 : {None, T_fuel},
     category_level2 : {None, T_PETROL},
     category_level3 : {None, T_uk},
     activity_unit : {None, T_km},
     emission_unit : {None, T_co2},
     search_term : {None, <<>>, T_Flight},
     min_factor : {NoNumber, Number(0), Number(2)},
     max_factor : {NoNumber, Number(2)}]

\* a search request has arrived for a service whose artifact is in place
InitSearch ==
    /\ InitParserIdle
    /\ file \in {Stored(d) : d \in SearchDatasets}
    /\ cache = EmptyCache
    /\ loads = 0
    /\ snapshot = NoData
    /\ failedOnce = FALSE
    /\ request \in {[op |-> "search arrived", params |-> p] : p \in SearchParams}
    /\ response = NoResponse

NextSearch ==
    /\ request.op = "search arrived"
    /\ SearchConversionFactors(request.params, PageDefault, PerPageDefault)

SpecSearch == InitSearch /\ [][NextSearch]_vars

-----------------------------------------------------------------------------
(* search_factors properties                                               *)

\* a text criterion is present: given and not empty
Present(crit) == crit # None /\ crit # <<>>

\* case-insensitive substring
ContainsCI(hay, needle) == Contains(Lower(hay), Lower(needle))

Populated(v) == v # None /\ v # <<>>

\* a record satisfies every present criterion
Satisfies(f, p) ==
    /\ Present(p.scope) => (Populated(f.scope) /\ ContainsCI(f.scope, p.scope))
    /\ Present(p.category_level1) =>
          (Populated(f.category.level1)
           /\ ContainsCI(f.category.level1, p.category_level1))
    /\ Present(p.category_level2) =>
          (Populated(f.category.level2)
           /\ ContainsCI(f.category.level2, p.category_level2))
    /\ Present(p.category_level3) =>
          (Populated(f.category.level3)
           /\ ContainsCI(f.category.level3, p.category_level3))
    /\ Present(p.activity_unit) =>
          (Populated(f.units.activity_unit)
           /\ ContainsCI(f.units.activity_unit, p.activity_unit))
    /\ Present(p.emission_unit) =>
          (Populated(f.units.emission_unit)
           /\ ContainsCI(f.units.emission_unit, p.emission_unit))
    /\ Present(p.search_term) =>
          (\/ \E tag \in f.tags : ContainsCI(tag, p.search_term)
           \/ \E v \in {f.category.level1, f.category.level2,
                        f.category.level3, f.category.level4} :
                  Populated(v) /\ ContainsCI(v, p.search_term))
    /\ p.min_factor.set => f.conversion_factor >= p.min_factor.v
    /\ p.max_factor.set => f.conversion_factor <= p.max_factor.v

NoCriterion(p) ==
    /\ ~Present(p.scope) /\ ~Present(p.category_level1) /\ ~Present(p.category_level2)
    /\ ~Present(p.category_level3) /\ ~Present(p.activity_unit)
    /\ ~Present(p.emission_unit) /\ ~Present(p.search_term)
    /\ ~p.min_factor.set /\ ~p.max_factor.set

\* C1: a search returns exactly the records that satisfy every present
\* criterion, in their original order; all of them when no criterion is
\* present; and with min_factor = max_factor = X (and nothing else) exactly
\* the records whose conversion_factor is X.
C1_SearchIsConjunctiveFilter ==
    (request.op = "search" /\ response.status = 200) =>
        LET d == response.used
            p == request.params
            found == response.body.factors
            keep == {i \in 1..Len(d) : Satisfies(Rec(d[i]), p)}
        IN  /\ Len(found) = Cardinality(keep)
            /\ response.body.total = Cardinality(keep)
            /\ \A i \in keep : found[Cardinality({j \in keep : j < i}) + 1] = d[i]
            /\ NoCriterion(p) => found = d
            /\ (/\ NoCriterion([p EXCEPT !.min_factor = NoNumber, !.max_factor = NoNumber])
                /\ p.min_factor.set /\ p.max_factor.set
                /\ p.min_factor.v = p.max_factor.v)
                  => found = SelectSeq(d, LAMBDA r :
                                 Rec(r).conversion_factor = p.min_factor.v)

\* a search with text criteria and min_factor = max_factor over two records
\* that drops the first and keeps the second
C1_Witness ==
    /\ request.op = "search"
    /\ response.status = 200
    /\ Present(request.params.category_level1)
    /\ Present(request.params.scope)
    /\ request.params.min_factor = Number(2)
    /\ request.params.max_factor = Number(2)
    /\ Len(response.used) = 2
    /\ Len(response.body.factors) = 1
    /\ response.body.factors[1] = response.used[2]
-----------------------------------------------------------------------------
(* Query service: the other endpoints, the artifact file and the process   *)

\* GET /
Root ==
    \E l \in {Load} :
        IF ~l.ok THEN Respond([op |-> "root"], l, ServerError)
        ELSE Respond([op |-> "root"], l,
                 [status |-> 200, used |-> l.data,
                  body |-> [status |-> "ok",
                            total_factors |-> Metadata(l.data).total_factors,
                            year |-> Metadata(l.data).year]])

\* GET /health: the load is inside try/except, which answers 503
HealthCheck ==
    \E l \in {Load} :
        IF ~l.ok
        THEN Respond([op |-> "health_check"], l,
                 [status |-> 503, used |-> NoData, body |-> "Service unhealthy"])
        ELSE Respond([op |-> "health_check"], l,
                 [status |-> 200, used |-> l.data,
                  body |-> [status |-> "healthy",
                            factors_loaded |-> Metadata(l.data).total_factors]])

\* GET /metadata (the major-changes file, which has its own cache and never
\* fails the request, is left out)
GetMetadata ==
    \E l \in {Load} :
        IF ~l.ok THEN Respond([op |-> "get_metadata"], l, ServerError)
        ELSE Respond([op |-> "get_metadata"], l,
                 [status |-> 200, used |-> l.data,
                  body |-> [conversion_factors |-> Metadata(l.data)]])

\* GET /categories
GetCategories ==
    \E l \in {Load} :
        IF ~l.ok THEN Respond([op |-> "get_categories"], l, ServerError)
        ELSE Respond([op |-> "get_categories"], l,
                 [status |-> 200, used |-> l.data,
                  body |-> [categories |-> Metadata(l.data).categories,
                            scopes |-> Metadata(l.data).scopes]])

\* GET /factors: search_factors with scope, category and search, then a page
GetConversionFactors(scope, category, search, page, per_page) ==
    \E l \in {Load} :
        LET req == [op |-> "get_conversion_factors", scope |-> scope,
                    category |-> category, search |-> search,
                    page |-> page, per_page |-> per_page]
            p   == [scope |-> scope, category_level1 |-> category,
                    category_level2 |-> None, category_level3 |-> None,
                    activity_unit |-> None, emission_unit |-> None,
                    search_term |-> search,
                    min_factor |-> NoNumber, max_factor |-> NoNumber]
        IN  IF ~l.ok THEN Respond(req, l, ServerError)
            ELSE \E filtered \in {SearchFactors(l.data, p)} :
                     Respond(req, l,
                         [status |-> 200, used |-> l.data,
                          body |-> [metadata |-> Metadata(l.data),
                                    factors |-> Paginate(filtered, page, per_page),
                                    total |-> Len(filtered),
                                    page |-> page, per_page |-> per_page]])

MaxStored == 2

\* the datasets the artifact file may hold
ServiceDatasets ==
    {Dataset(w, n, TRUE) : w \in {<<"E2", "F">>, <<"T", "N">>}, n \in 0..MaxStored}

\* the artifact is written (save_to_json of an extractor run, or a deployment)
WriteArtifact(d) ==
    /\ file # Stored(d)
    /\ file' = Stored(d)
    /\ UNCHANGED extractorVars
    /\ UNCHANGED serviceVars

\* the artifact is deleted
RemoveArtifact ==
    /\ file # Missing
    /\ file' = Missing
    /\ UNCHANGED extractorVars
    /\ UNCHANGED serviceVars

\* the artifact is replaced by a file that does not load
CorruptArtifact ==
    /\ file # Corrupt
    /\ file' = Corrupt
    /\ UNCHANGED extractorVars
    /\ UNCHANGED serviceVars

\* the process is restarted: a new process starts with an empty lru_cache
Restart ==
    /\ request # NoRequest
    /\ cache' = EmptyCache
    /\ loads' = 0
    /\ snapshot' = NoData
    /\ failedOnce' = FALSE
    /\ request' = NoRequest
    /\ response' = NoResponse
    /\ UNCHANGED file
    /\ UNCHANGED extractorVars

AnySearch ==
    [scope |-> None, category_level1 |-> None, category_level2 |-> None,
     category_level3 |-> None, activity_unit |-> None, emission_unit |-> None,
     search_term |-> None, min_factor |-> NoNumber, max_factor |-> NoNumber]

InitQueryService ==
    /\ InitParserIdle
    /\ file \in {Missing, Corrupt} \cup {Stored(d) : d \in ServiceDatasets}
    /\ InitService

NextQueryService ==
    \/ \E d \in ServiceDatasets : WriteArtifact(d)
    \/ RemoveArtifact
    \/ CorruptArtifact
    \/ Restart
    \/ Root
    \/ HealthCheck
    \/ GetMetadata
    \/ GetCategories
    \/ \E scope \in {None, T_SCOPE1}, page \in {1, 2}, per_page \in {1, PerPageDefault} :
           GetConversionFactors(scope, None, None, page, per_page)
    \/ \E p \in {AnySearch, [AnySearch EXCEPT !.search_term = T_Flight]} :
           SearchConversionFactors(p, PageDefault, PerPageDefault)
    \/ \E id \in {<<"1">>, <<"5">>} : GetFactorById(id)
    \/ \E e \in BOOLEAN : QuickLookup(e, None, IF e THEN None ELSE T_Flight)

SpecQueryService == InitQueryService /\ [][NextQueryService]_vars

-----------------------------------------------------------------------------
(* Query service properties: the loaded dataset                            *)

\* a request that obtained data
ObtainedData == response.status \in {200, 404}

\* C8: within one process the artifact is loaded at most once, and exactly
\* once as soon as a request has obtained data; the cache holds what that
\* load returned and nothing else ever; and every request that obtains data
\* read exactly that snapshot, whatever the file holds by then.
C8_LoadedOnceSameSnapshot ==
    /\ loads <= 1
    /\ cache.full <=> loads = 1
    /\ cache.full => cache.data = snapshot
    /\ ObtainedData => (loads = 1 /\ response.used = snapshot)

\* a request served from the snapshot after the file stopped holding it
C8_Witness ==
    /\ response.status = 200
    /\ response.stale
    /\ file # Stored(snapshot)
    /\ loads = 1
    /\ Len(snapshot) = 2

\* C9: a request that finds the artifact missing or unloadable answers an
\* error without data (the health check: 503), and from then on the instance
\* serves nothing: the failure is fatal for it.
C9_LoadFailureIsFatal ==
    /\ (request # NoRequest /\ ~cache.full) =>
          /\ response.status \in {500, 503}
          /\ response.used = NoData
          /\ request.op = "health_check" => response.status = 503
    /\ failedOnce => ~ObtainedData
-----------------------------------------------------------------------------
(* Extractor: _generate_tags on its own                                    *)

T_AirTravel == <<"A", "i", "r", " ", "t", "r", "a", "v", "e", "l">>
T_ClassA == <<"C", "l", "a", "s", "s", " ", "A", " ", "(", "a", "i", "r", ")">>
T_NaN == <<"N", "a", "N">>
T_t == <<"t">>

\* the factor dicts _create_factor_record hands to _generate_tags: scopes
\* missing, plain and blank; category levels missing, blank, "NaN", sharing
\* words with each other and holding one-letter words; units missing, plain,
\* padded and one letter long
TagFactors ==
    {FactorFields(MkRow(GoodId, GoodCf,
                        <<sc, l1, l2, l3, NA, NA, uom, StrCell(T_kgCO2e)>>)) :
        sc \in {NA, StrCell(T_Scope1), StrCell(T_Blank)},
        l1 \in {NA, StrCell(T_AirTravel), StrCell(T_NaN), StrCell(T_Blank)},
        l2 \in {NA, StrCell(T_ClassA)},
        l3 \in {NA, StrCell(T_AirTravel)},
        uom \in {NA, StrCell(T_km), StrCell(T_PaddedKWh), StrCell(T_t)}}

\* list(S) of a set S: its elements, each once, in some order
ListsOf(S) == {l \in [1..Cardinality(S) -> S] : Range(l) = S}

\* factor["tags"] = self._generate_tags(factor)
GenerateTagsCall ==
    /\ ~tagged.done
    /\ \E l \in ListsOf(GenerateTags(tagged.factor)) :
           tagged' = [done |-> TRUE, factor |-> tagged.factor, tags |-> l]
    /\ UNCHANGED <<sheet, conversion_factors, total_factors, scopes, categories,
                   warnings, pstatus, calls, started, runs, firstOutput, file>>
    /\ UNCHANGED serviceVars

InitTags ==
    /\ sheet = <<>>
    /\ conversion_factors = <<>>
    /\ total_factors = 0
    /\ scopes = <<>>
    /\ categories = <<>>
    /\ warnings = 0
    /\ pstatus = "new"
    /\ calls = 0
    /\ started = 0
    /\ runs = 0
    /\ firstOutput = <<>>
    /\ tagged \in {[done |-> FALSE, factor |-> f, tags |-> <<>>] : f \in TagFactors}
    /\ file = Missing
    /\ InitService

NextTags == GenerateTagsCall

SpecTags == InitTags /\ [][NextTags]_vars

-----------------------------------------------------------------------------
(* _generate_tags properties                                               *)

\* C11: the tags of a record, whatever its scope, category levels and
\* activity unit, hold no token twice, no empty token and no token of
\* length 1 or less.
C11_TagsUniqueAndLong ==
    tagged.done =>
        /\ \A i \in 1..Len(tagged.tags) :
               /\ tagged.tags[i] # <<>>
               /\ Len(tagged.tags[i]) > 1
        /\ \A i, j \in 1..Len(tagged.tags) :
               tagged.tags[i] = tagged.tags[j] => i = j

\* tags returned for a factor whose words repeat and include a one-letter word
C11_Witness ==
    /\ tagged.done
    /\ Len(tagged.tags) >= 3
    /\ \E i, j \in 1..Len(RawTags(tagged.factor)) :
           /\ i # j
           /\ RawTags(tagged.factor)[i] = RawTags(tagged.factor)[j]
    /\ \E i \in 1..Len(RawTags(tagged.factor)) : Len(RawTags(tagged.factor)[i]) = 1
-----------------------------------------------------------------------------
(* quick_lookup properties: records without a level1 category              *)

\* C12: a quick_lookup with a transport_mode completes with a result on
\* every dataset, records with a null level1 included: such a record is left
\* out of the transport matches and the operation does not fail on it.
C12_TransportSearchCompletes ==
    (request.op = "quick_lookup" /\ Given(request.transport_mode)) =>
        /\ response.status = 200
        /\ (~request.electricity /\ ~Given(request.fuel_type)) =>
               \A i \in 1..Len(response.body.results) :
                   Rec(response.body.results[i]).category.level1 # None
====
